---- MODULE Spec2Model ----
(***************************************************************************)
(* Model of the crocodile pull-request reviewer:                           *)
(*   utils/diff_parser.py      DiffParser, validate_and_filter_comments     *)
(*   services/github_service.py GitHubService                               *)
(*   services/review_service.py generate_review_for_pr                      *)
(*   worker.py                  review_pull_request_task, orchestrate_review*)
(*                                                                         *)
(* Python str values are sequences of one-character strings, so that       *)
(* startswith, slicing and the hunk-header regular expression are computed *)
(* on the text itself.  Python values of unknown type (the untrusted       *)
(* output of the generator) are tagged records, see None / Str / IntV.      *)
(***************************************************************************)
EXTENDS Integers, Sequences, FiniteSets, TLC

(***************************************************************************)
(* Bounds of the model.                                                    *)
(***************************************************************************)
MaxLines == 4

MaxComments == 2

\* longest text parsed twice, or followed to its end under fairness
MaxShortLines == 3

(***************************************************************************)
(* Python values.                                                          *)
(***************************************************************************)
None == [t |-> "none", s |-> <<>>, n |-> 0]

Str(x) == [t |-> "str", s |-> x, n |-> 0]

IntV(k) == [t |-> "int", s |-> <<>>, n |-> k]

\* bool(v)
Truthy(v) ==
  CASE v.t = "none" -> FALSE
    [] v.t = "str"  -> v.s # <<>>
    [] v.t = "int"  -> v.n # 0

\* str.startswith
StartsWith(s, p) == Len(s) >= Len(p) /\ SubSeq(s, 1, Len(p)) = p

\* s[k:]
SliceFrom(s, k) == SubSeq(s, k + 1, Len(s))

\* s[:k]
SliceTo(s, k) == IF Len(s) <= k THEN s ELSE SubSeq(s, 1, k)

(***************************************************************************)
(* Text constants of the source.                                           *)
(***************************************************************************)
DIFF_GIT == <<"d","i","f","f"," ","-","-","g","i","t">>

PATH_MARK == <<"+","+","+"," ","b","/">>

AT_AT == <<"@","@">>

PLUS == <<"+">>

PLUS3 == <<"+","+","+">>

MINUS == <<"-">>

MINUS3 == <<"-","-","-">>

SPACE == <<" ">>

Digits == {"0","1","2","3","4","5","6","7","8","9"}

DigitVal(c) ==
  CASE c = "0" -> 0 [] c = "1" -> 1 [] c = "2" -> 2 [] c = "3" -> 3
    [] c = "4" -> 4 [] c = "5" -> 5 [] c = "6" -> 6 [] c = "7" -> 7
    [] c = "8" -> 8 [] c = "9" -> 9

(***************************************************************************)
(* re.match(r"@@ -(\d+)(?:,(\d+))? \+(\d+)(?:,(\d+))? @@", line)           *)
(* Positions are 1-based; every scanner returns the position after what   *)
(* it consumed, or 0 when it does not match.                               *)
(***************************************************************************)
\* literal text p at position pos
Lit(s, pos, p) ==
  IF pos # 0 /\ pos + Len(p) - 1 <= Len(s) /\ SubSeq(s, pos, pos + Len(p) - 1) = p
  THEN pos + Len(p) ELSE 0

RECURSIVE SkipDigits(_, _)
\* the position after the longest run of digits starting at pos
SkipDigits(s, pos) ==
  IF pos <= Len(s) /\ s[pos] \in Digits THEN SkipDigits(s, pos + 1) ELSE pos

\* \d+
Number(s, pos) ==
  IF pos = 0 THEN 0
  ELSE IF SkipDigits(s, pos) > pos THEN SkipDigits(s, pos) ELSE 0

\* (?:,(\d+))?
OptLen(s, pos) ==
  IF pos = 0 THEN 0
  ELSE IF Number(s, Lit(s, pos, <<",">>)) # 0 THEN Number(s, Lit(s, pos, <<",">>))
  ELSE pos

RECURSIVE ToInt(_, _, _)
\* int() of the digits s[from..to-1]
ToInt(s, from, to) ==
  IF from >= to THEN 0
  ELSE ToInt(s, from, to - 1) * 10 + DigitVal(s[to - 1])

HunkHeaderMatch(line) ==
  LET p1 == Lit(line, 1, <<"@","@"," ","-">>)
      p2 == OptLen(line, Number(line, p1))
      p3 == Lit(line, p2, <<" ","+">>)
      p4 == Number(line, p3)
      p5 == Lit(line, OptLen(line, p4), <<" ","@","@">>)
  IN  IF p5 # 0 THEN [ok |-> TRUE, new_start |-> ToInt(line, p3, p4)]
      ELSE [ok |-> FALSE, new_start |-> 0]

(***************************************************************************)
(* DiffParser._parse_diff, one iteration of its loop.  current_file and    *)
(* current_hunk are None (the empty sequence) or hold one dict.  The dict  *)
(* bound to current_hunk is the object appended to current_file["hunks"],  *)
(* so a write through current_hunk is a write to that last hunk.           *)
(***************************************************************************)
NewFile == [path |-> None, hunks |-> <<>>, commentable_lines |-> <<>>]

NewHunk(new_start) ==
  [new_start |-> new_start, current_line |-> new_start, lines |-> <<>>]

\* d[k] = v on a dict
DictSet(d, k, v) == [x \in (DOMAIN d) \cup {k} |-> IF x = k THEN v ELSE d[x]]

\* the hunk h as a copy of its own: the file's list of hunks is not touched
WithLastHunkCopied(f, h) == f

\* current_hunk is the object appended to current_file["hunks"] (line 49):
\* the hunk h written back to the last hunk of file f
WithLastHunk(f, h) ==
  IF f.hunks = <<>> THEN f
  ELSE [f EXCEPT !.hunks = [f.hunks EXCEPT ![Len(f.hunks)] = h]]

\* line 52: an added line
IsAddedLine(line) == StartsWith(line, PLUS) /\ ~StartsWith(line, PLUS3)

\* line 64: a removed line
IsRemovedLine(line) == StartsWith(line, MINUS) /\ ~StartsWith(line, MINUS3)

\* line 66: a context line
IsContextLine(line) == StartsWith(line, SPACE)

\* lines 52-67: a line read with the hunk h open; cf is current_file, which
\* an added line subscripts (line 55) and no other line touches
HunkLine(cf, h, line) ==
  IF IsAddedLine(line)
  THEN LET h2 == [h EXCEPT
                    !.lines = Append(@, [type |-> "added",
                                         line_number |-> h.current_line,
                                         content |-> SliceFrom(line, 1)]),
                    !.current_line = @ + 1]
           f2 == [cf[1] EXCEPT !.commentable_lines =
                    DictSet(@, h.current_line, SliceFrom(line, 1))]
       IN  [file |-> <<WithLastHunk(f2, h2)>>, hunk |-> h2]
  ELSE IF IsRemovedLine(line)
  THEN [file |-> cf, hunk |-> h]
  ELSE IF IsContextLine(line)
  THEN LET h2 == [h EXCEPT !.current_line = @ + 1]
       IN  [file |-> IF cf = <<>> THEN cf ELSE <<WithLastHunk(cf[1], h2)>>,
            hunk |-> h2]
  ELSE [file |-> cf, hunk |-> h]

\* lines 26-27: the previous file section is closed
CloseFile(fs, cf) == IF cf # <<>> THEN Append(fs, cf[1]) ELSE fs

\* a guard that asks for an open hunk only
HunkGuardHunkOnly(st) == st.current_hunk # <<>>

\* line 51: current_hunk is not None and current_file
HunkGuard(st) == st.current_hunk # <<>> /\ st.current_file # <<>>

\* lines 53-67: the loop body subscripts current_file or current_hunk
\* while it is None (TypeError); lines 37 and 49 are under "if current_file"
Raises(st, line) ==
  /\ ~StartsWith(line, DIFF_GIT)
  /\ ~StartsWith(line, PATH_MARK)
  /\ ~StartsWith(line, AT_AT)
  /\ HunkGuard(st)
  /\ \/ IsAddedLine(line) /\ (st.current_hunk = <<>> \/ st.current_file = <<>>)
     \/ ~IsAddedLine(line) /\ ~IsRemovedLine(line) /\ IsContextLine(line)
          /\ st.current_hunk = <<>>

\* lines 23-67: the loop body on one line
ParseLine(st, line) ==
  IF StartsWith(line, DIFF_GIT)
  THEN [files |-> CloseFile(st.files, st.current_file),
        current_file |-> <<NewFile>>,
        current_hunk |-> <<>>]
  ELSE IF StartsWith(line, PATH_MARK)
  THEN IF st.current_file # <<>>
       THEN [st EXCEPT !.current_file =
               <<[st.current_file[1] EXCEPT !.path = Str(SliceFrom(line, 6))]>>]
       ELSE st
  ELSE IF StartsWith(line, AT_AT)
  THEN IF HunkHeaderMatch(line).ok
       THEN LET h == NewHunk(HunkHeaderMatch(line).new_start)
            IN  [st EXCEPT
                   !.current_hunk = <<h>>,
                   !.current_file =
                      IF st.current_file # <<>>
                      THEN <<[st.current_file[1] EXCEPT !.hunks = Append(@, h)]>>
                      ELSE st.current_file]
       ELSE st
  ELSE IF HunkGuard(st)
  THEN LET r == HunkLine(st.current_file, st.current_hunk[1], line)
       IN  [st EXCEPT !.current_file = r.file, !.current_hunk = <<r.hunk>>]
  ELSE st

\* lines 71-74: end of input
FinishParse(st) ==
  IF st.current_file # <<>> /\ Truthy(st.current_file[1].path)
  THEN Append(st.files, st.current_file[1])
  ELSE st.files

ParseStart == [files |-> <<>>, current_file |-> <<>>, current_hunk |-> <<>>]

RECURSIVE ParseFrom(_, _, _)
ParseFrom(st, lines, k) ==
  IF k > Len(lines) THEN st ELSE ParseFrom(ParseLine(st, lines[k]), lines, k + 1)

\* DiffParser(diff).files, lines being diff.split("\n")
ParseDiff(lines) == FinishParse(ParseFrom(ParseStart, lines, 1))


(***************************************************************************)
(* DiffParser.get_commentable_lines / is_line_commentable / get_all_files  *)
(* on a parsed document fs (DiffParser.files).                             *)
(***************************************************************************)
RECURSIVE get_commentable_lines(_, _)
\* the map of the first file whose path equals file_path, else {}
get_commentable_lines(fs, file_path) ==
  IF fs = <<>> THEN <<>>
  ELSE IF Head(fs).path = file_path THEN Head(fs).commentable_lines
  ELSE get_commentable_lines(Tail(fs), file_path)

is_line_commentable(fs, file_path, line_number) ==
  line_number \in DOMAIN get_commentable_lines(fs, file_path)

\* the paths of all entries, None included
get_all_filesUnfiltered(fs) == [k \in 1..Len(fs) |-> fs[k].path]

RECURSIVE get_all_files(_)
\* line 90
get_all_files(fs) ==
  IF fs = <<>> THEN <<>>
  ELSE IF Truthy(Head(fs).path) THEN <<Head(fs).path>> \o get_all_files(Tail(fs))
  ELSE get_all_files(Tail(fs))

(***************************************************************************)
(* DiffParser.get_added_lines_context: the text handed to the generator.   *)
(***************************************************************************)
NO_CHANGES ==
  <<"N","o"," ","c","h","a","n","g","e","s"," ","d","e","t","e","c","t","e",
    "d"," ","i","n"," ","d","i","f","f",".">>

NO_ADDED ==
  <<"N","o"," ","a","d","d","e","d"," ","l","i","n","e","s"," ","f","o","u",
    "n","d"," ","i","n"," ","d","i","f","f",".">>

FILE_PREFIX ==
  <<"\n"," ","F","i","l","e",":"," ">>

LINE_PREFIX ==
  <<" "," ","L","i","n","e"," ">>

COLON ==
  <<":"," ">>

ELLIPSIS ==
  <<".",".",".">>

\* the display width of line 107
DISPLAY_WIDTH == 100

\* the width of the rule under a file header, line 103
RULE_WIDTH == 60

DigitChar(d) ==
  CASE d = 0 -> "0" [] d = 1 -> "1" [] d = 2 -> "2" [] d = 3 -> "3"
    [] d = 4 -> "4" [] d = 5 -> "5" [] d = 6 -> "6" [] d = 7 -> "7"
    [] d = 8 -> "8" [] d = 9 -> "9"

RECURSIVE IntToStr(_)
\* str(n), n >= 0
IntToStr(n) ==
  IF n < 10 THEN <<DigitChar(n)>>
  ELSE IntToStr(n \div 10) \o <<DigitChar(n % 10)>>

RECURSIVE Sorted(_)
\* sorted(keys)
Sorted(S) ==
  IF S = {} THEN <<>>
  ELSE LET m == CHOOSE x \in S : \A y \in S : x <= y
       IN  <<m>> \o Sorted(S \ {m})

RECURSIVE Join(_, _)
\* sep.join(parts)
Join(sep, parts) ==
  IF parts = <<>> THEN <<>>
  ELSE IF Len(parts) = 1 THEN parts[1]
  ELSE parts[1] \o sep \o Join(sep, Tail(parts))

\* lines 106-108
DisplayContent(content) ==
  IF Len(content) > DISPLAY_WIDTH
  THEN SliceTo(content, DISPLAY_WIDTH) \o ELLIPSIS
  ELSE content

\* lines 105-109: the "Line" entries of one file
LineEntries(f) ==
  LET ks == Sorted(DOMAIN f.commentable_lines)
  IN  [k \in 1..Len(ks) |->
         LINE_PREFIX \o IntToStr(ks[k]) \o COLON
           \o DisplayContent(f.commentable_lines[ks[k]])]

RECURSIVE ContextEntries(_)
\* lines 97-109: the list context
ContextEntries(fs) ==
  IF fs = <<>> THEN <<>>
  ELSE IF ~Truthy(Head(fs).path) \/ DOMAIN Head(fs).commentable_lines = {}
  THEN ContextEntries(Tail(fs))
  ELSE <<FILE_PREFIX \o Head(fs).path.s, [k \in 1..RULE_WIDTH |-> "-"]>>
         \o LineEntries(Head(fs)) \o ContextEntries(Tail(fs))

\* lines 92-114
get_added_lines_context(fs) ==
  IF fs = <<>> THEN NO_CHANGES
  ELSE IF ContextEntries(fs) = <<>> THEN NO_ADDED
  ELSE Join(<<"\n">>, ContextEntries(fs))

\* not s.strip()
IsBlank(s) == \A k \in 1..Len(s) : s[k] \in {" ", "\n", "\t", "\r"}

(***************************************************************************)
(* A candidate comment: any Python value.  isdict tells a dict from any    *)
(* other value; keys is the set of keys the dict has among path, line,     *)
(* side, body; a key that is absent holds None.                            *)
(***************************************************************************)
RIGHT == <<"R","I","G","H","T">>

\* comment.get(k)
Get(c, k) ==
  IF k \notin c.keys THEN None
  ELSE CASE k = "path" -> c.path [] k = "line" -> c.line
         [] k = "side" -> c.side [] k = "body" -> c.body

\* line 133: all([path, line, body])
HasRequiredFields(c) ==
  Truthy(Get(c, "path")) /\ Truthy(Get(c, "line")) /\ Truthy(Get(c, "body"))

\* line 138: isinstance(line, int)
LineIsInt(c) == Get(c, "line").t = "int"

\* line 162: comment.get("side", "RIGHT")
SideOf(c) == IF "side" \in c.keys THEN c.side ELSE Str(RIGHT)

\* lines 158-165: the dict appended to valid_comments
ValidComment(c) ==
  [path |-> Get(c, "path"), line |-> Get(c, "line"),
   side |-> SideOf(c), body |-> Get(c, "body")]

\* PassesChecks without the look-up of the line in the commentable map
PassesChecksAnyLine(c, fs) ==
  /\ c.isdict
  /\ HasRequiredFields(c)
  /\ LineIsInt(c)

\* lines 124-156: the candidate passes every check
PassesChecks(c, fs) ==
  /\ c.isdict
  /\ HasRequiredFields(c)
  /\ LineIsInt(c)
  /\ is_line_commentable(fs, Get(c, "path"), Get(c, "line").n)

RECURSIVE validate_and_filter_comments(_, _)
\* lines 117-173, the loop taken from its first candidate
validate_and_filter_comments(comments, fs) ==
  IF comments = <<>> THEN <<>>
  ELSE IF PassesChecks(Head(comments), fs)
  THEN <<ValidComment(Head(comments))>>
         \o validate_and_filter_comments(Tail(comments), fs)
  ELSE validate_and_filter_comments(Tail(comments), fs)

(***************************************************************************)
(* Lines the diffs of the model are made of.                               *)
(***************************************************************************)
L_DIFF == DIFF_GIT

L_PATH_A == <<"+","+","+"," ","b","/","s","r","c","/","a",".","p","y">>

L_PATH_B == <<"+","+","+"," ","b","/","b">>

L_HUNK_1 == <<"@","@"," ","-","1",",","3"," ","+","1",",","4"," ","@","@">>

L_HUNK_12 == <<"@","@"," ","-","0",",","0"," ","+","1","2"," ","@","@">>

L_HUNK_BAD == <<"@","@"," ","-","1"," ","+","x"," ","@","@">>

L_ADD == <<"+","a","d","d","e","d","1">>

L_ADD_PP == <<"+","+","+","i",";">>

L_CTX == <<" ","c","t","x">>

L_CTX2 == <<" ","c","t","x","2">>

L_DEL == <<"-","o","l","d">>

L_EMPTY == <<>>

LineAlphabet ==
  {L_DIFF, L_PATH_A, L_PATH_B, L_HUNK_1, L_HUNK_12, L_HUNK_BAD,
   L_ADD, L_ADD_PP, L_CTX, L_DEL, L_EMPTY}

\* scenario A of the specification
ScenarioA == <<L_DIFF, L_PATH_A, L_HUNK_1, L_CTX, L_ADD, L_CTX2>>

\* one hunk in which a line "++i;" is added before a line "added1"
ScenarioIncrement == <<L_DIFF, L_PATH_A, L_HUNK_1, L_ADD_PP, L_ADD>>

\* every text of at most MaxLines lines, and the scenarios
\* a section with no path marker between two sections that have one
ScenarioPathless ==
  <<L_DIFF, L_PATH_A, L_HUNK_1, L_ADD,
    L_DIFF, L_HUNK_12, L_ADD,
    L_DIFF, L_PATH_B, L_HUNK_1, L_ADD>>

\* two file sections of the same path
SamePathTwice ==
  <<L_DIFF, L_PATH_A, L_HUNK_12, L_ADD, L_DIFF, L_PATH_A, L_HUNK_1, L_CTX, L_ADD>>

DiffTexts ==
  UNION {[1..k -> LineAlphabet] : k \in 1..MaxLines}
    \cup {ScenarioA, ScenarioIncrement, ScenarioPathless, SamePathTwice}

(***************************************************************************)
(* Candidate comments and diffs handed to post_review.                     *)
(***************************************************************************)
P_A == Str(<<"s","r","c","/","a",".","p","y">>)

P_B == Str(<<"b">>)

B_OK == Str(<<"o","k">>)

B_BAD == Str(<<"b","a","d">>)

S_LEFT == Str(<<"L","E","F","T">>)

Dict(keys, path, line, side, body) ==
  [isdict |-> TRUE, keys |-> keys, path |-> path, line |-> line,
   side |-> side, body |-> body]

\* a candidate that is not a dict (a str)
NotADict ==
  [isdict |-> FALSE, keys |-> {}, path |-> None, line |-> None,
   side |-> None, body |-> None]

PLB == {"path", "line", "body"}

Candidates ==
  { NotADict,
    Dict(PLB, P_A, IntV(2), None, B_OK),
    Dict(PLB, P_A, IntV(1), None, B_BAD),
    Dict(PLB \cup {"side"}, P_A, IntV(2), S_LEFT, B_OK),
    Dict(PLB \cup {"side"}, P_A, IntV(2), Str(RIGHT), B_OK),
    Dict(PLB, P_A, IntV(99), None, B_BAD),
    Dict(PLB, P_A, Str(<<"2">>), None, B_OK),
    Dict({"path", "line"}, P_A, IntV(2), None, None),
    Dict(PLB, P_A, IntV(2), None, None),
    Dict(PLB, P_A, IntV(99), None, IntV(7)),
    Dict({"line", "body"}, None, IntV(2), None, B_OK),
    Dict(PLB, P_B, IntV(2), None, B_OK),
    Dict(PLB, P_A, IntV(0), None, B_OK) }

\* two added lines, numbered 1 and 2
TwoAdded == <<L_DIFF, L_PATH_A, L_HUNK_1, L_ADD, L_ADD>>

\* the empty text: "".split("\n") is [""]
EmptyDiff == <<L_EMPTY>>

PostDiffs == {EmptyDiff, ScenarioA, TwoAdded, SamePathTwice}

CandidateLists == UNION {[1..k -> Candidates] : k \in 0..MaxComments}

TOKEN == Str(<<"t","o","k">>)

HEAD_SHA == Str(<<"s","h","a">>)

SUMMARY == Str(<<"s","u","m">>)

\* the status codes GitHub answers the review submission with
Statuses == {200, 422, 500}

(***************************************************************************)
(* State.                                                                  *)
(***************************************************************************)
VARIABLES
  diff,            \* the diff text, as diff.split("\n")
  i,               \* _parse_diff: index of the next line (0-based)
  files,           \* _parse_diff: files; afterwards DiffParser.files
  current_file,    \* _parse_diff: current_file
  current_hunk,    \* _parse_diff: current_hunk
  parse_pc,        \* _parse_diff: "idle", "loop", "done" or "raised"
  documents,       \* what the constructions DiffParser(diff) returned so far
  token,           \* GitHubService._token
  token_requests,  \* requests for an installation access token sent to GitHub
  review_comments, \* post_review: its argument
  valid_comments,  \* post_review: valid_comments, <<>> while unbound
  submitted,       \* review payloads POSTed to GitHub
  post_pc,         \* post_review: where the call stands
  post_err,        \* post_review: the exception it raised
  response_status, \* post_review: response.status_code, 0 while unbound
  task_pc,         \* the coroutines get_pr_details and get_pr_diff in gather
  job_pc,          \* review_pull_request_task: where the job stands
  ai_calls,        \* calls of review_chain.ainvoke
  ai_response,     \* what review_chain.ainvoke answered, <<>> while unbound
  ai_review,       \* orchestrate_review: ai_review, <<>> while unbound
  job_result,      \* the string review_pull_request_task returns
  job_err,         \* the exception caught at worker.py:66
  job_failed_in,   \* the stage that raised it
  request,         \* the webhook request: its headers and its JSON body
  hook_pc,         \* the webhook request: where its handling stands
  hook_status,     \* the status of the response to it, 0 while none
  queue            \* the calls of review_pull_request_task.delay

parserVars ==
  <<diff, i, files, current_file, current_hunk, parse_pc, documents>>

serviceVars == <<token, token_requests>>

postVars ==
  <<review_comments, valid_comments, submitted, post_pc, post_err,
    response_status>>

jobVars ==
  <<task_pc, job_pc, ai_calls, ai_response, ai_review, job_result, job_err,
    job_failed_in>>

hookVars == <<request, hook_pc, hook_status, queue>>

vars == <<parserVars, serviceVars, postVars, jobVars, hookVars>>

\* no webhook request was received
HookIdle ==
  /\ request = <<>>
  /\ hook_pc = "idle"
  /\ hook_status = 0
  /\ queue = <<>>

\* no parse is running
ParserIdle ==
  /\ i = 0
  /\ files = <<>>
  /\ current_file = <<>>
  /\ current_hunk = <<>>
  /\ parse_pc = "idle"
  /\ documents = <<>>

\* no call of post_review is running
PostIdle ==
  /\ review_comments = <<>>
  /\ valid_comments = <<>>
  /\ submitted = <<>>
  /\ post_pc = "idle"
  /\ post_err = ""
  /\ response_status = 0

\* no job is running
JobIdle ==
  /\ task_pc = [t \in {"details", "diff"} |-> "idle"]
  /\ job_pc = "idle"
  /\ ai_calls = 0
  /\ ai_response = <<>>
  /\ ai_review = <<>>
  /\ job_result = ""
  /\ job_err = ""
  /\ job_failed_in = ""

\* GitHubService.__init__
ServiceNew ==
  /\ token = None
  /\ token_requests = 0

(***************************************************************************)
(* DiffParser.__init__ / _parse_diff as a loop.                            *)
(***************************************************************************)
InitParse ==
  /\ diff \in DiffTexts
  /\ i = 0
  /\ files = <<>>
  /\ current_file = <<>>
  /\ current_hunk = <<>>
  /\ parse_pc = "loop"
  /\ documents = <<>>
  /\ ServiceNew
  /\ PostIdle
  /\ JobIdle
  /\ HookIdle

\* lines 22-69: one iteration
ParseStep ==
  /\ parse_pc = "loop"
  /\ i < Len(diff)
  /\ LET st0 == [files |-> files, current_file |-> current_file,
                 current_hunk |-> current_hunk]
     IN  IF Raises(st0, diff[i + 1])
         THEN /\ parse_pc' = "raised"
              /\ UNCHANGED <<i, files, current_file, current_hunk>>
         ELSE LET st == ParseLine(st0, diff[i + 1])
              IN  /\ files' = st.files
                  /\ current_file' = st.current_file
                  /\ current_hunk' = st.current_hunk
                  /\ i' = i + 1
                  /\ parse_pc' = parse_pc
  /\ UNCHANGED <<diff, documents, serviceVars, postVars, jobVars>>
  /\ UNCHANGED hookVars

\* lines 71-74: the loop is left and files is returned
ParseEnd ==
  /\ parse_pc = "loop"
  /\ i >= Len(diff)
  /\ LET result == FinishParse([files |-> files, current_file |-> current_file,
                                current_hunk |-> current_hunk])
     IN  /\ files' = result
         /\ documents' = Append(documents, result)
  /\ parse_pc' = "done"
  /\ UNCHANGED <<diff, i, current_file, current_hunk, serviceVars, postVars,
                 jobVars>>
  /\ UNCHANGED hookVars

NextParse == ParseStep \/ ParseEnd

SpecParse == InitParse /\ [][NextParse]_vars

(***************************************************************************)
(* Short texts: parsed to the end under fairness, and parsed twice.        *)
(***************************************************************************)
ShortTexts ==
  UNION {[1..k -> LineAlphabet] : k \in 1..MaxShortLines}
    \cup {ScenarioA, ScenarioIncrement, ScenarioPathless}

InitShort ==
  /\ diff \in ShortTexts
  /\ i = 0
  /\ files = <<>>
  /\ current_file = <<>>
  /\ current_hunk = <<>>
  /\ parse_pc = "loop"
  /\ documents = <<>>
  /\ ServiceNew
  /\ PostIdle
  /\ JobIdle
  /\ HookIdle

\* line 22: the loop has a line left to read, which is when ParseStep is
\* enabled (it reads the line or raises on it)
StepEnabled == parse_pc = "loop" /\ i < Len(diff)

\* weak fairness of ParseStep, its enabling condition written out
FairParseStep == []<>(~StepEnabled) \/ []<><<ParseStep>>_vars

\* the interpreter runs the loop of _parse_diff on and leaves it
SpecParseLive ==
  InitShort /\ [][NextParse]_vars /\ WF_vars(ParseEnd) /\ FairParseStep

\* constructions of DiffParser from one text
MaxParses == 2

\* a construction that finds the locals of the previous call as it left them
ConstructAgainKeepsLocals ==
  /\ parse_pc = "done"
  /\ Len(documents) < MaxParses
  /\ i' = 0
  /\ files' = <<>>
  /\ parse_pc' = "loop"
  /\ UNCHANGED <<diff, current_file, current_hunk, documents, serviceVars,
                 postVars, jobVars>>
  /\ UNCHANGED hookVars

\* lines 10-20: DiffParser(diff) is constructed once more from the same text
ConstructAgain ==
  /\ parse_pc = "done"
  /\ Len(documents) < MaxParses
  /\ i' = 0
  /\ files' = <<>>
  /\ current_file' = <<>>
  /\ current_hunk' = <<>>
  /\ parse_pc' = "loop"
  /\ UNCHANGED <<diff, documents, serviceVars, postVars, jobVars>>
  /\ UNCHANGED hookVars

NextReparse == ParseStep \/ ParseEnd \/ ConstructAgain

SpecReparse == InitShort /\ [][NextReparse]_vars

(***************************************************************************)
(* GitHubService.post_review, called with all of its arguments.  The call  *)
(* is cut at its awaits: the token request, the GET of the pull request    *)
(* and the POST of the review.                                             *)
(***************************************************************************)
\* lines 156-166: the exception the warning block raises, "" when none
WarningError(comments, valid) ==
  IF Len(comments) > 0 /\ Len(valid) = 0
  THEN IF ~comments[1].isdict THEN "AttributeError"
       ELSE IF "body" \in comments[1].keys /\ comments[1].body.t # "str"
       THEN "TypeError"
       ELSE ""
  ELSE ""

\* ReviewPayload with the comments field set whatever the validated list is
ReviewPayloadAlwaysComments(head_sha, review_summary, valid) ==
  [commit_id |-> head_sha, body |-> review_summary, event |-> "COMMENT",
   comments |-> valid]

\* lines 168-175
ReviewPayload(head_sha, review_summary, valid) ==
  IF valid # <<>>
  THEN [commit_id |-> head_sha, body |-> review_summary, event |-> "COMMENT",
        comments |-> valid]
  ELSE [commit_id |-> head_sha, body |-> review_summary, event |-> "COMMENT"]

InitPost ==
  /\ diff \in PostDiffs
  /\ ParserIdle
  /\ token \in {None, TOKEN}
  /\ token_requests = 0
  /\ review_comments \in CandidateLists
  /\ valid_comments = <<>>
  /\ submitted = <<>>
  /\ post_pc = "start"
  /\ post_err = ""
  /\ response_status = 0
  /\ JobIdle
  /\ HookIdle

\* lines 129, 86-88: _authenticate asks for a token when it holds none
PostAuthenticate ==
  /\ post_pc = "start"
  /\ IF ~Truthy(token)
     THEN /\ token_requests' = token_requests + 1
          /\ post_pc' = "token_wait"
     ELSE /\ token_requests' = token_requests
          /\ post_pc' = "details_wait"
  /\ UNCHANGED <<parserVars, token, review_comments, valid_comments,
                 submitted, post_err, response_status, jobVars>>
  /\ UNCHANGED hookVars

\* lines 88-92, 46-77: the token request is answered
PostTokenResponse ==
  /\ post_pc = "token_wait"
  /\ \E ok \in BOOLEAN :
       IF ok
       THEN /\ token' = TOKEN
            /\ post_pc' = "details_wait"
            /\ post_err' = post_err
       ELSE /\ token' = token
            /\ post_pc' = "raised"
            /\ post_err' = "HTTPStatusError"
  /\ UNCHANGED <<parserVars, token_requests, review_comments, valid_comments,
                 submitted, response_status, jobVars>>
  /\ UNCHANGED hookVars

\* lines 133-187: the GET of the pull request is answered; the diff is
\* parsed, the candidates are validated and the review is POSTed
PostDetailsResponse ==
  /\ post_pc = "details_wait"
  /\ \E ok \in BOOLEAN :
       IF ~ok
       THEN /\ post_pc' = "raised"
            /\ post_err' = "HTTPStatusError"
            /\ UNCHANGED <<files, valid_comments, submitted>>
       ELSE LET fs == ParseDiff(diff)
                valid == validate_and_filter_comments(review_comments, fs)
            IN  /\ files' = fs
                /\ valid_comments' = <<valid>>
                /\ IF WarningError(review_comments, valid) # ""
                   THEN /\ post_pc' = "raised"
                        /\ post_err' = WarningError(review_comments, valid)
                        /\ submitted' = submitted
                   ELSE /\ post_pc' = "review_wait"
                        /\ post_err' = post_err
                        /\ submitted' =
                             Append(submitted, ReviewPayload(HEAD_SHA, SUMMARY, valid))
  /\ UNCHANGED <<diff, i, current_file, current_hunk, parse_pc, documents,
                 serviceVars, review_comments, response_status, jobVars>>
  /\ UNCHANGED hookVars

\* a status raise_for_status would let through only from 500 on
RaisesForStatusServerOnly(status) == status >= 500

\* line 204: response.raise_for_status() raises
RaisesForStatus(status) == status >= 400

\* lines 189-206: the POST of the review is answered; on a 422 the body is
\* read as JSON first (line 190), which raises when it is not JSON
PostReviewResponse ==
  /\ post_pc = "review_wait"
  /\ \E status \in Statuses, body_is_json \in BOOLEAN :
       /\ response_status' = status
       /\ IF status = 422 /\ ~body_is_json
          THEN /\ post_pc' = "raised"
               /\ post_err' = "JSONDecodeError"
          ELSE IF RaisesForStatus(status)
          THEN /\ post_pc' = "raised"
               /\ post_err' = "HTTPStatusError"
          ELSE /\ post_pc' = "returned"
               /\ post_err' = post_err
  /\ UNCHANGED <<parserVars, serviceVars, review_comments, valid_comments,
                 submitted, jobVars>>
  /\ UNCHANGED hookVars

NextPost ==
  \/ PostAuthenticate
  \/ PostTokenResponse
  \/ PostDetailsResponse
  \/ PostReviewResponse

SpecPost == InitPost /\ [][NextPost]_vars

(***************************************************************************)
(* review_pull_request_task / orchestrate_review / generate_review_for_pr. *)
(***************************************************************************)
NOTHING_SUMMARY ==
  <<"T","h","i","s"," ","P","R"," ","c","o","n","t","a","i","n","s"," ","n",
    "o"," ","a","d","d","e","d"," ","c","o","d","e"," ","l","i","n","e","s",
    " ","t","o"," ","r","e","v","i","e","w"," ","(","o","n","l","y"," ","d",
    "e","l","e","t","i","o","n","s"," ","o","r"," ","f","i","l","e"," ","r",
    "e","n","a","m","e","s",")",".">>

FAILURE_SUMMARY ==
  <<"F","a","i","l","e","d"," ","t","o"," ","g","e","n","e","r","a","t","e",
    " ","A","I"," ","r","e","v","i","e","w"," ","d","u","e"," ","t","o"," ",
    "a","n"," ","e","r","r","o","r",".">>

\* what review_chain.ainvoke does: it raises, or it returns a JSON value,
\* a dict (with its keys among summary, comments) or another value
AiRaises == [kind |-> "raise", keys |-> {}, summary |-> None, comments |-> <<>>]

AiNotADict == [kind |-> "list", keys |-> {}, summary |-> None, comments |-> <<>>]

AiDict(keys, summary, comments) ==
  [kind |-> "dict", keys |-> keys, summary |-> summary, comments |-> comments]

AiOutcomes ==
  {AiRaises, AiNotADict,
   AiDict({"summary", "comments"}, None, <<>>),
   AiDict({"comments"}, None, <<>>),
   AiDict({"summary"}, SUMMARY, <<>>)}
    \cup {AiDict({"summary", "comments"}, SUMMARY, cs) : cs \in CandidateLists}

\* the text GitHub answers get_pr_diff with
JobDiffs ==
  {EmptyDiff, <<L_DIFF>>, <<L_DIFF, L_PATH_A, L_HUNK_1, L_DEL>>, ScenarioA,
   TwoAdded}

\* review_service.py:88-91
ShortCircuits(commentable_context) ==
  IsBlank(commentable_context) \/ commentable_context = NO_ADDED

\* review_service.py:93-96
NothingToReview ==
  AiDict({"summary", "comments"}, Str(NOTHING_SUMMARY), <<>>)

\* review_service.py:122-125
GenerationFailed ==
  AiDict({"summary", "comments"}, Str(FAILURE_SUMMARY), <<>>)

RECURSIVE CommentsPreviewError(_)
\* review_service.py:135-140: the exception the preview loop raises, or ""
CommentsPreviewError(cs) ==
  IF cs = <<>> THEN ""
  ELSE IF ~Head(cs).isdict THEN "AttributeError"
  ELSE IF "body" \in Head(cs).keys /\ Head(cs).body.t # "str" THEN "TypeError"
  ELSE CommentsPreviewError(Tail(cs))

\* review_service.py:127-148: the exception raised on the response, or ""
ResponseError(r) ==
  IF r.kind # "dict" THEN "AttributeError"
  ELSE IF "summary" \in r.keys /\ r.summary.t # "str" THEN "TypeError"
  ELSE IF "comments" \in r.keys
  THEN CommentsPreviewError(SliceTo(r.comments, 5))
  ELSE ""

\* github_service.py:121-128: the parameters of post_review, none defaulted
POST_REVIEW_PARAMS ==
  {"repo_full_name", "pr_number", "review_summary", "review_comments", "diff"}

\* worker.py:110-115: the keywords orchestrate_review passes
ORCHESTRATOR_KEYWORDS ==
  {"repo_full_name", "pr_number", "review_summary", "review_comments"}

\* a Python call binds when every parameter without a default is passed
CallBinds(params, keywords) == params \subseteq keywords

Tasks == {"details", "diff"}

InitJob ==
  /\ diff \in JobDiffs
  /\ ParserIdle
  /\ ServiceNew
  /\ PostIdle
  /\ task_pc = [t \in Tasks |-> "idle"]
  /\ job_pc = "start"
  /\ ai_calls = 0
  /\ ai_response = <<>>
  /\ ai_review = <<>>
  /\ job_result = ""
  /\ job_err = ""
  /\ job_failed_in = ""
  /\ HookIdle

\* worker.py:73-77: the service is built and both coroutines are gathered
JobStart ==
  /\ job_pc = "start"
  /\ job_pc' = "fetch"
  /\ task_pc' = [t \in Tasks |-> "start"]
  /\ UNCHANGED <<parserVars, serviceVars, postVars, ai_calls, ai_response,
                 ai_review, job_result, job_err, job_failed_in>>
  /\ UNCHANGED hookVars

\* github_service.py:97/110, 86-88: a coroutine runs to its first await
TaskAuthenticate(t) ==
  /\ job_pc = "fetch"
  /\ task_pc[t] = "start"
  /\ IF ~Truthy(token)
     THEN /\ token_requests' = token_requests + 1
          /\ task_pc' = [task_pc EXCEPT ![t] = "token_wait"]
     ELSE /\ token_requests' = token_requests
          /\ task_pc' = [task_pc EXCEPT ![t] = "get_wait"]
  /\ UNCHANGED <<parserVars, token, postVars, job_pc, ai_calls, ai_response,
                 ai_review, job_result, job_err, job_failed_in>>
  /\ UNCHANGED hookVars

\* the event loop runs every ready coroutine before it polls the network
AllStarted == \A t \in Tasks : task_pc[t] # "start"

\* github_service.py:88-92: the token request of a coroutine is answered
TaskTokenResponse(t) ==
  /\ job_pc = "fetch"
  /\ AllStarted
  /\ task_pc[t] = "token_wait"
  /\ \E ok \in BOOLEAN :
       IF ok
       THEN /\ token' = TOKEN
            /\ task_pc' = [task_pc EXCEPT ![t] = "get_wait"]
       ELSE /\ token' = token
            /\ task_pc' = [task_pc EXCEPT ![t] = "failed"]
  /\ UNCHANGED <<parserVars, token_requests, postVars, job_pc, ai_calls,
                 ai_response, ai_review, job_result, job_err, job_failed_in>>
  /\ UNCHANGED hookVars

\* github_service.py:100-107/116-119: the GET of a coroutine is answered
TaskGetResponse(t) ==
  /\ job_pc = "fetch"
  /\ AllStarted
  /\ task_pc[t] = "get_wait"
  /\ \E ok \in BOOLEAN :
       task_pc' = [task_pc EXCEPT ![t] = IF ok THEN "done" ELSE "failed"]
  /\ UNCHANGED <<parserVars, serviceVars, postVars, job_pc, ai_calls,
                 ai_response, ai_review, job_result, job_err, job_failed_in>>
  /\ UNCHANGED hookVars

\* worker.py:77, 66-69: gather raises the first failure, asyncio.run cancels
\* what is still running and the task returns the failure string
JobFetchFailed ==
  /\ job_pc = "fetch"
  /\ \E t \in Tasks : task_pc[t] = "failed"
  /\ task_pc' = [t \in Tasks |->
                   IF task_pc[t] \in {"done", "failed"} THEN task_pc[t]
                   ELSE "cancelled"]
  /\ job_pc' = "returned"
  /\ job_result' = "Failed to review"
  /\ job_err' = "HTTPStatusError"
  /\ job_failed_in' = "fetch"
  /\ UNCHANGED <<parserVars, serviceVars, postVars, ai_calls, ai_response,
                 ai_review>>
  /\ UNCHANGED hookVars

\* gather answering as soon as one of its coroutines has a result
GatherAnyDone(pcs) == \E t \in Tasks : pcs[t] = "done"

\* worker.py:77: gather answers when every coroutine has its result
GatherDone(pcs) == \A t \in Tasks : pcs[t] = "done"

\* worker.py:79, review_service.py:82-119: both fetches are done; the diff
\* is parsed and rendered, and generation is skipped or invoked
JobGenerate ==
  /\ job_pc = "fetch"
  /\ GatherDone(task_pc)
  /\ files' = ParseDiff(diff)
  /\ IF ShortCircuits(get_added_lines_context(ParseDiff(diff)))
     THEN /\ ai_review' = <<NothingToReview>>
          /\ ai_calls' = ai_calls
          /\ job_pc' = "post"
     ELSE /\ ai_review' = ai_review
          /\ ai_calls' = ai_calls + 1
          /\ job_pc' = "ai_wait"
  /\ UNCHANGED <<diff, i, current_file, current_hunk, parse_pc, documents,
                 serviceVars, postVars, task_pc, ai_response, job_result,
                 job_err, job_failed_in>>
  /\ UNCHANGED hookVars

\* review_service.py:112-148, worker.py:66-69: ainvoke raises or returns
JobAiResponse ==
  /\ job_pc = "ai_wait"
  /\ \E r \in AiOutcomes :
       /\ ai_response' = <<r>>
       /\ IF r.kind = "raise"
          THEN /\ ai_review' = <<GenerationFailed>>
               /\ job_pc' = "post"
               /\ UNCHANGED <<job_result, job_err, job_failed_in>>
          ELSE IF ResponseError(r) # ""
          THEN /\ ai_review' = ai_review
               /\ job_pc' = "returned"
               /\ job_result' = "Failed to review"
               /\ job_err' = ResponseError(r)
               /\ job_failed_in' = "generate"
          ELSE /\ ai_review' = <<r>>
               /\ job_pc' = "post"
               /\ UNCHANGED <<job_result, job_err, job_failed_in>>
  /\ UNCHANGED <<parserVars, serviceVars, postVars, task_pc, ai_calls>>
  /\ UNCHANGED hookVars

\* worker.py:53
UNKNOWN_FILE == <<"u","n","k","n","o","w","n","_","f","i","l","e",".","p","y">>

RECURSIVE find_file_path_from_diff(_)
\* worker.py:48-53: the path of the first "+++ b/" line
find_file_path_from_diff(lines) ==
  IF lines = <<>> THEN Str(UNKNOWN_FILE)
  ELSE IF StartsWith(Head(lines), PATH_MARK) THEN Str(SliceFrom(Head(lines), 6))
  ELSE find_file_path_from_diff(Tail(lines))

\* worker.py:84: ai_review.get("comments", [])
AiComments(r) == IF "comments" \in r.keys THEN r.comments ELSE <<>>

\* worker.py:102-108: the dict built for a comment that matched
PositionComment(file_path, position, c) ==
  [path |-> file_path, position |-> IntV(position), body |-> Get(c, "comment")]

RECURSIVE BuildReviewComments(_, _, _, _, _)
\* worker.py:88-108: review_comments, built from the k-th line of the diff
\* on; the comments are matched on their key "line_number"
BuildReviewComments(lines, k, current_file_line, ai_comments, file_path) ==
  IF k > Len(lines) THEN <<>>
  ELSE IF \/ StartsWith(lines[k], MINUS3)
          \/ StartsWith(lines[k], PLUS3)
          \/ StartsWith(lines[k], AT_AT)
  THEN BuildReviewComments(lines, k + 1, current_file_line, ai_comments, file_path)
  ELSE LET n == IF StartsWith(lines[k], MINUS) THEN current_file_line
                ELSE current_file_line + 1
           hits == SelectSeq(ai_comments,
                             LAMBDA c : Get(c, "line_number") = IntV(n))
       IN  [j \in 1..Len(hits) |-> PositionComment(file_path, k, hits[j])]
             \o BuildReviewComments(lines, k + 1, n, ai_comments, file_path)

\* a job that reports success once the review is built, whatever became
\* of the call of post_review
JobPostReportsSuccess ==
  /\ job_pc = "post"
  /\ job_pc' = "returned"
  /\ job_result' = "Review posted successfully."
  /\ review_comments' =
       BuildReviewComments(diff, 1, 0, AiComments(ai_review[1]),
                           find_file_path_from_diff(diff))
  /\ UNCHANGED <<parserVars, serviceVars, valid_comments, submitted, post_pc,
                 post_err, response_status, task_pc, ai_calls, ai_response,
                 ai_review, job_err, job_failed_in>>
  /\ UNCHANGED hookVars

\* worker.py:83-117, 66-69: the review is handed to post_review.  Lines
\* 83-108 only build locals from ai_review; the call of line 110 is bound
\* against the signature of post_review before its body is entered.
JobPost ==
  /\ job_pc = "post"
  /\ IF CallBinds(POST_REVIEW_PARAMS, ORCHESTRATOR_KEYWORDS)
     THEN /\ job_pc' = "in_post_review"
          /\ UNCHANGED <<job_result, job_err, job_failed_in>>
     ELSE /\ job_pc' = "returned"
          /\ job_result' = "Failed to review"
          /\ job_err' = "TypeError"
          /\ job_failed_in' = "post"
  /\ review_comments' =
       BuildReviewComments(diff, 1, 0, AiComments(ai_review[1]),
                           find_file_path_from_diff(diff))
  /\ UNCHANGED <<parserVars, serviceVars, valid_comments, submitted, post_pc,
                 post_err, response_status, task_pc, ai_calls, ai_response,
                 ai_review>>
  /\ UNCHANGED hookVars

NextJob ==
  \/ JobStart
  \/ \E t \in Tasks : TaskAuthenticate(t)
  \/ \E t \in Tasks : TaskTokenResponse(t)
  \/ \E t \in Tasks : TaskGetResponse(t)
  \/ JobFetchFailed
  \/ JobGenerate
  \/ JobAiResponse
  \/ JobPost

SpecJob == InitJob /\ [][NextJob]_vars

(***************************************************************************)
(* api/webhooks.py: POST /webhooks/github.  The route runs the dependency  *)
(* verify_signature, binds payload (PullRequestEvent) and the header       *)
(* x_github_event, and calls post_github_webhook.  A required header that  *)
(* is absent and a body that PullRequestEvent rejects are answered 422     *)
(* without the function being called.                                      *)
(***************************************************************************)
PULL_REQUEST == Str(<<"p","u","l","l","_","r","e","q","u","e","s","t">>)

PUSH == Str(<<"p","u","s","h">>)

PULL_REQUEST_CAPS == Str(<<"P","u","l","l","_","R","e","q","u","e","s","t">>)

OPENED == Str(<<"o","p","e","n","e","d">>)

SYNCHRONIZE == Str(<<"s","y","n","c","h","r","o","n","i","z","e">>)

REOPENED == Str(<<"r","e","o","p","e","n","e","d">>)

CLOSED == Str(<<"c","l","o","s","e","d">>)

EDITED == Str(<<"e","d","i","t","e","d">>)

REPO == Str(<<"o","/","r">>)

\* core/config.py: settings.GITHUB_WEBHOOK_SECRET, and a secret that is not it
GITHUB_WEBHOOK_SECRET == "secret"

OTHER_SECRET == "other"

\* webhooks.py:15-17: "sha256=" + hmac.new(secret, payload_body).hexdigest();
\* a digest is told apart by the key and the body it was computed from
Signature(secret, payload_body) == Str(<<"sha256=", secret, payload_body>>)

\* the JSON bodies: a field that the body lacks is None
Bodies ==
  [action : {None, OPENED, SYNCHRONIZE, REOPENED, CLOSED, EDITED},
   number : {None, IntV(1), IntV(2)},
   full_name : {REPO},
   installation_id : {None, IntV(7), IntV(8)}]

\* the requests: headers that are absent are None
Requests ==
  {[x_hub_signature_256 |-> sig, x_github_event |-> ev, body |-> b] :
     sig \in {None} \cup {Signature(GITHUB_WEBHOOK_SECRET, b1) : b1 \in Bodies}
               \cup {Signature(OTHER_SECRET, b2) : b2 \in Bodies},
     ev \in {None, PULL_REQUEST, PUSH, PULL_REQUEST_CAPS},
     b \in Bodies}

\* schemas/github.py:9-27: the fields PullRequestEvent requires
PayloadValid(b) ==
  /\ b.action.t = "str"
  /\ b.number.t = "int"
  /\ b.full_name.t = "str"
  /\ b.installation_id.t = "int"

\* a check that takes any signature header for the expected one
SignatureMatchesAny(req) == req.x_hub_signature_256 # None

\* webhooks.py:18: hmac.compare_digest(expected_signature, x_hub_signature_256)
SignatureMatches(req) ==
  req.x_hub_signature_256 = Signature(GITHUB_WEBHOOK_SECRET, req.body)

\* webhooks.py:30
REVIEW_ACTIONS == {OPENED, SYNCHRONIZE, REOPENED}

\* webhooks.py:33-37: the keyword arguments of delay
ReviewJob(b) ==
  [installation_id |-> b.installation_id, repo_full_name |-> b.full_name,
   pr_number |-> b.number]

InitHook ==
  /\ diff = <<>>
  /\ ParserIdle
  /\ ServiceNew
  /\ PostIdle
  /\ JobIdle
  /\ request \in {<<r>> : r \in Requests}
  /\ hook_pc = "received"
  /\ hook_status = 0
  /\ queue = <<>>

\* webhooks.py:12-19: the dependency verify_signature
HookVerifySignature ==
  /\ hook_pc = "received"
  /\ IF request[1].x_hub_signature_256 = None
     THEN /\ hook_pc' = "responded"
          /\ hook_status' = 422
     ELSE IF ~SignatureMatches(request[1])
     THEN /\ hook_pc' = "responded"
          /\ hook_status' = 401
     ELSE /\ hook_pc' = "verified"
          /\ hook_status' = hook_status
  /\ UNCHANGED <<request, queue, parserVars, serviceVars, postVars, jobVars>>

\* webhooks.py:23-25: payload and x_github_event are bound
HookBindArguments ==
  /\ hook_pc = "verified"
  /\ IF request[1].x_github_event = None \/ ~PayloadValid(request[1].body)
     THEN /\ hook_pc' = "responded"
          /\ hook_status' = 422
     ELSE /\ hook_pc' = "handler"
          /\ hook_status' = hook_status
  /\ UNCHANGED <<request, queue, parserVars, serviceVars, postVars, jobVars>>

\* webhooks.py:26-40
post_github_webhook ==
  /\ hook_pc = "handler"
  /\ IF /\ request[1].x_github_event = PULL_REQUEST
        /\ request[1].body.action \in REVIEW_ACTIONS
     THEN /\ queue' = Append(queue, ReviewJob(request[1].body))
          /\ hook_status' = 200
     ELSE /\ queue' = queue
          /\ hook_status' = 204
  /\ hook_pc' = "responded"
  /\ UNCHANGED <<request, parserVars, serviceVars, postVars, jobVars>>

NextHook == HookVerifySignature \/ HookBindArguments \/ post_github_webhook

SpecHook == InitHook /\ [][NextHook]_vars

\* the loop and the function agree
ParseAgrees == parse_pc = "done" => files = ParseDiff(diff)

\* scenario A yields {2: "added1"}
ScenarioAResult ==
  (parse_pc = "done" /\ diff = ScenarioA) =>
     /\ Len(files) = 1
     /\ files[1].path = Str(<<"s","r","c","/","a",".","p","y">>)
     /\ DOMAIN files[1].commentable_lines = {2}
     /\ files[1].commentable_lines[2] = <<"a","d","d","e","d","1">>

(***************************************************************************)
(* The new-side numbering of a unified diff, replayed from the text: a     *)
(* hunk opens at a well-formed hunk header with the cursor on its          *)
(* new_start and is closed by any other "@@" line and by the next file     *)
(* section; in an open hunk a line with a leading space or a leading "+"   *)
(* takes the cursor's number and advances it, a line with a leading "-"    *)
(* does not.  One set of <<number, content>> pairs per file section.       *)
(***************************************************************************)
ReplayLine(r, line) ==
  IF StartsWith(line, DIFF_GIT)
  THEN [secs |-> Append(r.secs, {}), open |-> FALSE, cur |-> 0]
  ELSE IF StartsWith(line, PATH_MARK)
  THEN r
  ELSE IF StartsWith(line, AT_AT)
  THEN IF HunkHeaderMatch(line).ok
       THEN [r EXCEPT !.open = TRUE, !.cur = HunkHeaderMatch(line).new_start]
       ELSE [r EXCEPT !.open = FALSE]
  ELSE IF r.open /\ r.secs # <<>>
  THEN IF StartsWith(line, PLUS)
       THEN [r EXCEPT !.secs[Len(r.secs)] = @ \cup {<<r.cur, SliceFrom(line, 1)>>},
                      !.cur = @ + 1]
       ELSE IF StartsWith(line, SPACE)
       THEN [r EXCEPT !.cur = @ + 1]
       ELSE r
  ELSE r

RECURSIVE ReplayFrom(_, _, _)
ReplayFrom(r, lines, k) ==
  IF k > Len(lines) THEN r ELSE ReplayFrom(ReplayLine(r, lines[k]), lines, k + 1)

Replay(lines) == ReplayFrom([secs |-> <<>>, open |-> FALSE, cur |-> 0], lines, 1).secs

\* C1: every entry of a file's commentable map carries the new-side line
\* number that replaying its hunk from the declared new_start gives that
\* added line (context and added lines advance the cursor, removed lines
\* do not).
C1_ReplayNumbers ==
  parse_pc = "done" =>
    \A j \in 1..Len(files) :
      \A n \in DOMAIN files[j].commentable_lines :
        <<n, files[j].commentable_lines[n]>> \in Replay(diff)[j]

\* a diff of one file and one hunk whose body is only added lines
OneHunkOfAdded(lines) ==
  /\ Len(lines) >= 4
  /\ StartsWith(lines[1], DIFF_GIT)
  /\ StartsWith(lines[2], PATH_MARK) /\ Len(lines[2]) > Len(PATH_MARK)
  /\ HunkHeaderMatch(lines[3]).ok /\ HunkHeaderMatch(lines[3]).new_start >= 1
  /\ \A k \in 4..Len(lines) :
       StartsWith(lines[k], PLUS) /\ ~StartsWith(lines[k], PATH_MARK)

\* C2: one file, one hunk with new_start s and k consecutive added lines of
\* any content: the keys of the commentable map are exactly s .. s+k-1.
C2_ConsecutiveAdded ==
  (parse_pc = "done" /\ OneHunkOfAdded(diff)) =>
    /\ Len(files) = 1
    /\ DOMAIN files[1].commentable_lines =
         LET s == HunkHeaderMatch(diff[3]).new_start
         IN  s .. (s + Len(diff) - 4)

(***************************************************************************)
(* Claims on validate_and_filter_comments and post_review.                 *)
(***************************************************************************)
\* a record with a path, an integer line found in the commentable map of
\* that path, and a non-empty body
MustAccept(c, fs) ==
  /\ c.isdict
  /\ {"path", "line", "body"} \subseteq c.keys
  /\ Truthy(c.path)
  /\ c.line.t = "int"
  /\ c.line.n \in DOMAIN get_commentable_lines(fs, c.path)
  /\ Truthy(c.body)

\* C3: the validator is a stable filter: the returned list is, in input
\* order and with duplicates kept, exactly the candidates that have a path,
\* an integer line of that path's commentable map and a non-empty body;
\* every returned comment is commentable.
C3_StableFilter ==
  valid_comments # <<>> =>
    LET out == valid_comments[1]
        K == {k \in 1..Len(review_comments) : MustAccept(review_comments[k], files)}
        Rank(k) == Cardinality({m \in K : m <= k})
    IN  /\ Len(out) = Cardinality(K)
        /\ \A k \in K :
             /\ out[Rank(k)].path = review_comments[k].path
             /\ out[Rank(k)].line = review_comments[k].line
             /\ out[Rank(k)].body = review_comments[k].body
        /\ \A j \in 1..Len(out) :
             /\ out[j].line.t = "int"
             /\ is_line_commentable(files, out[j].path, out[j].line.n)

\* a list of which some candidates are accepted and a candidate on line 99
\* is rejected
C3_Witness ==
  /\ valid_comments # <<>>
  /\ Len(review_comments) >= 2
  /\ Len(valid_comments[1]) >= 1
  /\ Len(valid_comments[1]) < Len(review_comments)
  /\ \E k \in 1..Len(review_comments) :
       review_comments[k].isdict /\ review_comments[k].line = IntV(99)

\* C8: rejected and malformed candidates never make post_review raise: once
\* the candidates are validated the review is submitted.
C8_RejectionNeverAborts ==
  valid_comments # <<>> =>
    /\ Len(submitted) = 1
    /\ post_err \notin {"AttributeError", "TypeError"}

\* C9: a submitted payload has a comments field exactly when some comment
\* passed validation, and then the field is the validated list.
C9_CommentsField ==
  \A k \in 1..Len(submitted) :
    /\ ("comments" \in DOMAIN submitted[k]) <=> (valid_comments[1] # <<>>)
    /\ "comments" \in DOMAIN submitted[k] =>
         /\ submitted[k].comments = valid_comments[1]
         /\ submitted[k].comments # <<>>

\* a summary-only review submitted although candidates were given
C9_Witness ==
  /\ Len(submitted) = 1
  /\ review_comments # <<>>
  /\ valid_comments = << <<>> >>
  /\ "comments" \notin DOMAIN submitted[1]

\* C10: every comment returned by the validator has side "RIGHT".
C10_SideRight ==
  valid_comments # <<>> =>
    \A j \in 1..Len(valid_comments[1]) : valid_comments[1][j].side = Str(RIGHT)

(***************************************************************************)
(* Claims on the job.                                                      *)
(***************************************************************************)
\* no file of the document yields a commentable line
NoCommentableLine(fs) ==
  \A k \in 1..Len(fs) :
    ~Truthy(fs[k].path) \/ DOMAIN fs[k].commentable_lines = {}

\* the generator answered with a well-formed {summary, comments} record
WellFormedResponse(r) ==
  /\ r.kind = "dict"
  /\ r.keys = {"summary", "comments"}
  /\ r.summary.t = "str"
  /\ \A k \in 1..Len(r.comments) :
       /\ r.comments[k].isdict
       /\ PLB \subseteq r.comments[k].keys
       /\ r.comments[k].path.t = "str"
       /\ r.comments[k].line.t = "int"
       /\ r.comments[k].body.t = "str"

\* C4: the installation access token of one GitHubService instance is
\* requested from GitHub at most once.
C4_TokenOnce == token_requests <= 1

\* C5: when no file of the fetched diff yields a commentable line, the
\* generator is never invoked and the review is the fixed placeholder.
C5_ShortCircuit ==
  NoCommentableLine(ParseDiff(diff)) =>
    /\ ai_calls = 0
    /\ ai_review # <<>> => ai_review[1] = NothingToReview

\* C6: when both fetches succeed and generation returns a well-formed
\* review, the job ends Completed: one review submitted, success returned.
C6_Completes ==
  (/\ job_pc = "returned"
   /\ \A t \in Tasks : task_pc[t] = "done"
   /\ ai_response # <<>>
   /\ WellFormedResponse(ai_response[1])) =>
    /\ job_result = "Review posted successfully."
    /\ Len(submitted) = 1

\* C7: generate_review_for_pr never raises: whatever the generator does,
\* it returns a review record and the job does not fail in Generate.
C7_GenerateNeverFails ==
  /\ job_failed_in # "generate"
  /\ ai_response # <<>> => ai_review # <<>>

(***************************************************************************)
(* Claims on the parser, continued.                                        *)
(***************************************************************************)
\* among the first k lines a malformed "@@" line was read and no
\* well-formed hunk header after it
BadHeaderPending(lines, k) ==
  \E j \in 1..k :
    /\ StartsWith(lines[j], AT_AT)
    /\ ~HunkHeaderMatch(lines[j]).ok
    /\ \A m \in (j + 1)..k :
         ~(StartsWith(lines[m], AT_AT) /\ HunkHeaderMatch(lines[m]).ok)

\* the commentable map of the file being parsed
MapOf(cf) == IF cf = <<>> THEN <<>> ELSE cf[1].commentable_lines

\* C11: after a malformed "@@" line no "+" line is recorded in any
\* commentable map until the next well-formed hunk header is read.
C11_BadHeaderClosesHunk ==
  [][(/\ parse_pc = "loop"
      /\ i < Len(diff)
      /\ BadHeaderPending(diff, i)
      /\ StartsWith(diff[i + 1], PLUS))
       => (MapOf(current_file') = MapOf(current_file) /\ files' = files)]_vars

(***************************************************************************)
(* Claims on the job, continued.                                           *)
(***************************************************************************)
\* C12: generation and the Post stage start only after both fetches have
\* succeeded; when a fetch fails the job ends Failed, the generator is
\* never invoked and no review is submitted.
C12_FetchBeforeGenerate ==
  /\ (\/ ai_calls > 0
      \/ ai_review # <<>>
      \/ job_pc \in {"ai_wait", "post", "in_post_review"}
      \/ submitted # <<>>)
       => \A t \in Tasks : task_pc[t] = "done"
  /\ (\E t \in Tasks : task_pc[t] = "failed") =>
       /\ job_pc \in {"fetch", "returned"}
       /\ job_pc = "returned" => job_result = "Failed to review"
       /\ ai_calls = 0
       /\ ai_review = <<>>
       /\ submitted = <<>>

\* the diff was fetched, the details were not, and the job has ended
C12_Witness ==
  /\ job_pc = "returned"
  /\ task_pc["diff"] = "done"
  /\ task_pc["details"] = "failed"
  /\ job_result = "Failed to review"
  /\ ai_calls = 0

\* the comments of a submitted payload
PayloadComments(payload) ==
  IF "comments" \in DOMAIN payload THEN payload.comments ELSE <<>>

\* C13: the comments of the review the job submits are exactly the
\* validator's output for the generator's candidates on the fetched diff.
C13_PostedIsValidated ==
  (job_pc = "returned" /\ GatherDone(task_pc) /\ ai_review # <<>>) =>
    /\ Len(submitted) = 1
    /\ PayloadComments(submitted[1]) =
         validate_and_filter_comments(AiComments(ai_review[1]), ParseDiff(diff))

\* the index of the "diff --git" line that opened the section of line k,
\* 0 before the first one
SectionStart(lines, k) ==
  LET S == {j \in 1..k : StartsWith(lines[j], DIFF_GIT)}
  IN  IF S = {} THEN 0 ELSE CHOOSE j \in S : \A m \in S : m <= j

\* line k stands in a file section that has no "+++ b/" line
InPathlessSection(lines, k) ==
  /\ SectionStart(lines, k) # 0
  /\ \A m \in 1..Len(lines) :
       SectionStart(lines, m) = SectionStart(lines, k) =>
         ~StartsWith(lines[m], PATH_MARK)

RECURSIVE DropFrom(_, _)
DropFrom(lines, k) ==
  IF k > Len(lines) THEN <<>>
  ELSE IF InPathlessSection(lines, k) THEN DropFrom(lines, k + 1)
  ELSE <<lines[k]>> \o DropFrom(lines, k + 1)

\* the text without its pathless sections
DropPathless(lines) == DropFrom(lines, 1)

\* path strings asked of the index, the empty string and "None" included
PathStrings == {P_A, P_B, Str(<<>>), Str(<<"N","o","n","e">>)}

\* C14: a file section without a "+++ b/" line is invisible through
\* get_all_files, get_commentable_lines and is_line_commentable for every
\* path string: the document answers as the document of the text without
\* that section does.
C14_PathlessInvisible ==
  parse_pc = "done" =>
    LET ref == ParseDiff(DropPathless(diff))
    IN  /\ get_all_files(files) = get_all_files(ref)
        /\ \A p \in PathStrings :
             /\ get_commentable_lines(files, p) = get_commentable_lines(ref, p)
             /\ \A n \in 0..13 :
                  is_line_commentable(files, p, n) = is_line_commentable(ref, p, n)

C14_Witness ==
  /\ parse_pc = "done"
  /\ \E k \in 1..Len(files) :
       /\ files[k].path = None
       /\ DOMAIN files[k].commentable_lines # {}
       /\ 1 < k /\ k < Len(files)

\* C15: the rendering of a document in which no file yields a commentable
\* line is the rendering of the empty text, and a document with a
\* commentable line in a file with a path renders to neither sentinel.
C15_OneSentinel ==
  parse_pc = "done" =>
    /\ NoCommentableLine(files) =>
         get_added_lines_context(files) = get_added_lines_context(ParseDiff(EmptyDiff))
    /\ ~NoCommentableLine(files) =>
         get_added_lines_context(files) \notin {NO_CHANGES, NO_ADDED}

\* C16: a review submission answered with status 422 ends post_review in
\* a raised error, never in a normal return, and no job reports a posted
\* review after it.
C16_Status422Raises ==
  response_status = 422 =>
    /\ post_pc = "raised"
    /\ post_err \in {"HTTPStatusError", "JSONDecodeError"}
    /\ job_result # "Review posted successfully."

C16_Witness ==
  /\ response_status = 422
  /\ post_pc = "raised"
  /\ post_err = "HTTPStatusError"
  /\ Len(submitted) = 1

C18_ParseTotal == <>(parse_pc = "done")

\* a text with a hunk line before any file section and a malformed hunk
\* header, parsed to its end
C18_Witness ==
  /\ parse_pc = "done"
  /\ Len(documents) = 1
  /\ IsAddedLine(diff[1])
  /\ \E k \in 1..Len(diff) :
       StartsWith(diff[k], AT_AT) /\ ~HunkHeaderMatch(diff[k]).ok

\* the line numbers of the "added" entries recorded in the hunks of file f
AddedNumbers(f) ==
  UNION {{f.hunks[h].lines[k].line_number : k \in 1..Len(f.hunks[h].lines)} :
           h \in 1..Len(f.hunks)}

\* the keys of the map of f are the added line numbers of its hunks
MapMatchesHunks(f) ==
  /\ DOMAIN f.commentable_lines = AddedNumbers(f)
  /\ \A h \in 1..Len(f.hunks) :
       \A k \in 1..Len(f.hunks[h].lines) : f.hunks[h].lines[k].type = "added"

\* C20: in every state of the parse and in its result, the keys of each
\* file's commentable map are the line numbers of the added entries in
\* that file's hunks, and the hunk that receives lines is the last hunk
\* of the file whose map is updated.
C20_MapMatchesHunks ==
  /\ \A k \in 1..Len(files) : MapMatchesHunks(files[k])
  /\ current_file # <<>> => MapMatchesHunks(current_file[1])
  /\ (current_hunk # <<>> /\ current_file # <<>>) =>
       /\ current_file[1].hunks # <<>>
       /\ current_file[1].hunks[Len(current_file[1].hunks)] = current_hunk[1]

C20_Witness ==
  /\ parse_pc = "loop"
  /\ files # <<>>
  /\ DOMAIN files[Len(files)].commentable_lines # {}
  /\ current_file # <<>>
  /\ DOMAIN current_file[1].commentable_lines # {}
  /\ current_hunk # <<>>
  /\ current_hunk[1].lines # <<>>

\* C19: a job ends in one outcome returned as a string: the success
\* string only after a review submission that GitHub accepted, the failure
\* string with the error it caught otherwise; nothing is returned before
\* the job ends.
C19_OneTerminalOutcome ==
  /\ job_pc = "returned" =>
       /\ job_result \in {"Review posted successfully.", "Failed to review"}
       /\ job_result = "Review posted successfully." =>
            /\ Len(submitted) = 1
            /\ ~RaisesForStatus(response_status)
            /\ job_err = ""
       /\ job_result = "Failed to review" =>
            /\ job_err # ""
            /\ job_failed_in \in {"fetch", "generate", "post"}
  /\ job_pc # "returned" =>
       /\ job_result = ""
       /\ job_err = ""

C19_Witness ==
  /\ job_pc = "returned"
  /\ job_result = "Failed to review"
  /\ job_err = "TypeError"
  /\ job_failed_in = "post"
  /\ ai_review # <<>>

\* C21: every file held in the document has a resolved path, in every
\* state of the parse and in its result: a section closed by a
\* "diff --git" line is kept only if its path was set.
C21_FilesHavePath ==
  \A k \in 1..Len(files) : Truthy(files[k].path)

RECURSIVE ListedFrom(_, _, _)
\* the (path, line number) pairs read back from the entries of the
\* rendering from the k-th on, path being that of the last " File: " entry
ListedFrom(entries, k, path) ==
  IF k > Len(entries) THEN {}
  ELSE IF StartsWith(entries[k], FILE_PREFIX)
  THEN ListedFrom(entries, k + 1, Str(SliceFrom(entries[k], Len(FILE_PREFIX))))
  ELSE IF StartsWith(entries[k], LINE_PREFIX)
  THEN {<<path, ToInt(entries[k], Len(LINE_PREFIX) + 1,
                      SkipDigits(entries[k], Len(LINE_PREFIX) + 1))>>}
         \cup ListedFrom(entries, k + 1, path)
  ELSE ListedFrom(entries, k + 1, path)

\* the pairs get_added_lines_context lists for the document fs
ListedPairs(fs) == ListedFrom(ContextEntries(fs), 1, None)

\* C22: every (file path, line number) pair listed in the generation
\* context of a parsed diff is commentable for the validator.
C22_ListedIsCommentable ==
  parse_pc = "done" =>
    \A pr \in ListedPairs(files) : is_line_commentable(files, pr[1], pr[2])

(***************************************************************************)
(* Claims on the webhook.                                                  *)
(***************************************************************************)
\* the request passed the signature check and was bound to the handler
Accepted(req) ==
  /\ req.x_hub_signature_256 = Signature(GITHUB_WEBHOOK_SECRET, req.body)
  /\ req.x_github_event # None
  /\ PayloadValid(req.body)

\* the request asks for a review
AsksReview(req) ==
  /\ req.x_github_event = PULL_REQUEST
  /\ req.body.action \in {OPENED, SYNCHRONIZE, REOPENED}

\* C23: a review job is enqueued only for a request whose signature check
\* passed, whose event is pull_request and whose action is opened,
\* synchronize or reopened; the answered request of that kind has enqueued
\* exactly one job, with the payload's installation id, repository name
\* and PR number; every other accepted request is answered 204 with
\* nothing enqueued.
C23_EnqueueOnlyReviewEvents ==
  /\ queue # <<>> =>
       /\ Accepted(request[1])
       /\ AsksReview(request[1])
  /\ hook_pc = "responded" /\ Accepted(request[1]) =>
       IF AsksReview(request[1])
       THEN /\ queue = <<[installation_id |-> request[1].body.installation_id,
                          repo_full_name |-> request[1].body.full_name,
                          pr_number |-> request[1].body.number]>>
            /\ hook_status = 200
       ELSE /\ queue = <<>>
            /\ hook_status = 204

C23_Witness ==
  /\ hook_pc = "responded"
  /\ hook_status = 200
  /\ request[1].body.action = SYNCHRONIZE
  /\ queue = <<[installation_id |-> IntV(8), repo_full_name |-> REPO,
                pr_number |-> IntV(2)]>>

====
